---------------------------- MODULE Spec2Model ----------------------------
(***************************************************************************)
(* Road-network routing: graph build from a parsed GraphML tree, Dijkstra  *)
(* shortest path and Monte Carlo random path sampling, as implemented by   *)
(*   src/project1.cpp                      (prog = 1, time + signal delay) *)
(*   src/smart_mobility_shortest_path.cpp  (prog = 2, distance + sampler)  *)
(*                                                                         *)
(* Conventions of the model                                                *)
(*  - Node identifiers are C++ strings.  They are written as naturals that *)
(*    keep the strings' lexicographic order: 0 = "" (the empty string),    *)
(*    1 = "A", 2 = "B", 3 = "C", 4 = "D", 5 = "Z".                         *)
(*  - All nodes lie on one meridian (lon = 0.0).  lat is counted in arcs   *)
(*    of 10 m, so that haversine, which on a meridian is R * |dlat|, is    *)
(*    10 * |lat1 - lat2| metres.  Lengths are whole metres.                *)
(*  - Costs of project1.cpp are seconds, w / 13.9 + delay.  They are kept  *)
(*    exactly, scaled by 139: 10 * w + 139 * delay.                        *)
(*  - A C++ unordered_map is a function on the set of its keys;            *)
(*    operator[] on a missing key inserts the value-initialised element.   *)
(***************************************************************************)
EXTENDS Integers, Sequences, FiniteSets, TLC

VARIABLES prog,                \* which of the two programs runs
          nodes, adj, edgeInfoMap,          \* the global graph
          trafficDelay,        \* project1.cpp: (from, to) -> seconds
          trafficLightDelay,   \* smart_mobility: node -> seconds
          pc,                  \* position of the program
          nEdges, lastElem,    \* graph build: edge elements read, the last one
          built,               \* the graph and delay tables as the first query found them
          start, goal,         \* arguments of the running path computation
          dist, prev, pq,      \* dijkstra's locals
          pops,                \* iterations of dijkstra's while loop so far
          path,                \* the path under construction (dijkstra, monteCarlo)
          route, total,        \* what the computation returned
          M, N, i, st, cur,    \* monteCarlo's parameters and loop variables
          best, bestStep, bestLen

graphVars == <<nodes, adj, edgeInfoMap>>
delayVars == <<trafficDelay, trafficLightDelay>>
buildVars == <<nEdges, lastElem>>
djVars    == <<dist, prev, pq, pops>>
mcVars    == <<M, N, i, st, cur, best, bestStep, bestLen>>
vars      == <<prog, graphVars, delayVars, pc, buildVars, built, start, goal,
               djVars, path, route, total, mcVars>>

----------------------------------------------------------------------------
(* Bounds of the model *)

\* edge elements read by one graph build (SpecBuild)
MaxEdges == 2
\* signal delays registered before the queries
MaxDelays == 1
\* trial count M and step count N handed to monteCarlo
MaxM == 1
MaxN == 3
\* nodes pushed by dijkstra's path reconstruction before the model stops it
MaxPath == 7

----------------------------------------------------------------------------
(* Maps *)

Empty == <<>>
Get(f, k, d) == IF k \in DOMAIN f THEN f[k] ELSE d
Put(f, k, v) == [x \in (DOMAIN f) \cup {k} |-> IF x = k THEN v ELSE f[x]]
\* m[k] on a std::unordered_map: inserts the default d when k is missing
Touch(f, k, d) == IF k \in DOMAIN f THEN f ELSE Put(f, k, d)

Abs(x) == IF x < 0 THEN -x ELSE x

\* 1e18, the distance of a node not reached; every reachable cost is below it
INF == 1000000000

\* the empty string as a node identifier
NoId == 0

----------------------------------------------------------------------------
(* Graph build *)

\* great-circle distance in metres of two points of the meridian
haversine(lat1, lat2) == 10 * Abs(lat2 - lat1)

\* ::tolower over the characters of the oneway texts of the model
ToLower(s) ==
  CASE s = "TRUE" -> "true"
    [] s = "Yes"  -> "yes"
    [] OTHER      -> s

\* step 3 of loadGraphML, one node element: nodes[id] = nd; adj[id];
LoadNode(g, n) ==
  [g EXCEPT !.nodes = Put(g.nodes, n.id, [lat |-> n.lat]),
            !.adj   = Touch(g.adj, n.id, <<>>)]

PushBack(a, s, t, length) == Put(a, s, Append(Get(a, s, <<>>), <<t, length>>))
SetInfo(m, s, t, info) == Put(m, s, Put(Get(m, s, Empty), t, info))

\* project1.cpp, one edge element: the length is always the haversine of the
\* endpoints, nodes[s] and nodes[t] insert a node at (0, 0) when missing, and
\* both directions are stored with an empty road name
LoadEdge1(g, e) ==
  LET ns     == Touch(Touch(g.nodes, e.source, [lat |-> 0]), e.target, [lat |-> 0])
      length == haversine(ns[e.source].lat, ns[e.target].lat)
      info   == [length |-> length, roadName |-> ""]
  IN  [nodes |-> ns,
       adj   |-> PushBack(PushBack(g.adj, e.source, e.target, length),
                          e.target, e.source, length),
       edgeInfoMap |-> SetInfo(SetInfo(g.edgeInfoMap, e.source, e.target, info),
                               e.target, e.source, info)]

\* smart_mobility_shortest_path.cpp 4-1): the declared length when finite,
\* else the haversine of the endpoints, else 0.0
EdgeLength2(g, e) ==
  IF e.finite THEN e.length
  ELSE IF e.source \in DOMAIN g.nodes /\ e.target \in DOMAIN g.nodes
       THEN haversine(g.nodes[e.source].lat, g.nodes[e.target].lat)
       ELSE 0

\* 4-2): oneway, lower-cased, is "true", "yes" or "1"
IsOne(e) ==
  /\ e.oneway # ""
  /\ ToLower(e.oneway) \in {"true", "yes", "1"}

\* smart_mobility_shortest_path.cpp, one edge element
LoadEdge2(g, e) ==
  LET length == EdgeLength2(g, e)
      info   == [length |-> length, roadName |-> e.name]
      fwd    == [g EXCEPT !.adj = PushBack(g.adj, e.source, e.target, length),
                          !.edgeInfoMap = SetInfo(g.edgeInfoMap, e.source, e.target, info)]
  IN  IF IsOne(e) THEN fwd
      ELSE [fwd EXCEPT !.adj = PushBack(fwd.adj, e.target, e.source, length),
                       !.edgeInfoMap = SetInfo(fwd.edgeInfoMap, e.target, e.source, info)]

LoadEdge(p, g, e) == IF p = 1 THEN LoadEdge1(g, e) ELSE LoadEdge2(g, e)

EmptyGraph == [nodes |-> Empty, adj |-> Empty, edgeInfoMap |-> Empty]

RECURSIVE FoldNodes(_, _)
FoldNodes(g, ns) ==
  IF ns = <<>> THEN g ELSE FoldNodes(LoadNode(g, Head(ns)), Tail(ns))

RECURSIVE FoldEdges(_, _, _)
FoldEdges(p, g, es) ==
  IF es = <<>> THEN g ELSE FoldEdges(p, LoadEdge(p, g, Head(es)), Tail(es))

\* the whole of loadGraphML on a parsed tree: all node elements, then all
\* edge elements, each in document order
loadGraphML(p, tree) == FoldEdges(p, FoldNodes(EmptyGraph, tree.nodes), tree.edges)

----------------------------------------------------------------------------
(* Inputs of the graph build checked element by element (SpecBuild) *)

BuildIds  == {1, 2}
BuildLats == {0, 10}
NodeElems == [id : BuildIds, lat : BuildLats]
\* the length attribute: absent or not finite (finite = FALSE), or a number
LengthAttrs == {[finite |-> FALSE, length |-> 0],
                [finite |-> TRUE, length |-> 0],
                [finite |-> TRUE, length |-> 100],
                [finite |-> TRUE, length |-> -50]}
OnewayAttrs == {"", "TRUE", "Yes", "1", "no"}
RoadNames   == {"", "Jong-ro"}
EdgeElems ==
  {[source |-> s, target |-> t, finite |-> l.finite, length |-> l.length,
    name |-> r, oneway |-> o] :
     s \in BuildIds, t \in BuildIds, l \in LengthAttrs, r \in RoadNames,
     o \in OnewayAttrs}

NoElem == [source |-> NoId, target |-> NoId, finite |-> FALSE, length |-> 0,
           name |-> "", oneway |-> ""]

Graph == [nodes |-> nodes, adj |-> adj, edgeInfoMap |-> edgeInfoMap]

Idle ==
  /\ start = NoId /\ goal = NoId
  /\ dist = Empty /\ prev = Empty /\ pq = {} /\ pops = 0
  /\ path = <<>> /\ route = <<>> /\ total = 0
  /\ M = 0 /\ N = 0 /\ i = 0 /\ st = 0 /\ cur = NoId
  /\ best = <<>> /\ bestStep = INF /\ bestLen = INF

InitBuild ==
  /\ prog \in {1, 2}
  /\ nodes = Empty /\ adj = Empty /\ edgeInfoMap = Empty
  /\ trafficDelay = Empty /\ trafficLightDelay = Empty
  /\ pc = "load_nodes"
  /\ nEdges = 0 /\ lastElem = NoElem
  /\ built = Empty
  /\ Idle

queryVars == <<start, goal, djVars, path, route, total, mcVars>>

\* loadGraphML 3): the next node element of the tree
ReadNode ==
  /\ pc = "load_nodes"
  /\ \E n \in NodeElems :
       LET g == LoadNode(Graph, n)
       IN  /\ nodes' = g.nodes
           /\ adj' = g.adj
  /\ UNCHANGED <<prog, edgeInfoMap, delayVars, pc, buildVars, built, queryVars>>

\* the node loop ends, the edge loop begins
EndNodes ==
  /\ pc = "load_nodes"
  /\ pc' = "load_edges"
  /\ UNCHANGED <<prog, graphVars, delayVars, buildVars, built, queryVars>>

\* loadGraphML 4): the next edge element of the tree
ReadEdge ==
  /\ pc = "load_edges"
  /\ nEdges < MaxEdges
  /\ \E e \in EdgeElems :
       LET g == LoadEdge(prog, Graph, e)
       IN  /\ nodes' = g.nodes
           /\ adj' = g.adj
           /\ edgeInfoMap' = g.edgeInfoMap
           /\ lastElem' = e
  /\ nEdges' = nEdges + 1
  /\ UNCHANGED <<prog, delayVars, pc, built, queryVars>>

\* loadGraphML returns true
EndEdges ==
  /\ pc = "load_edges"
  /\ pc' = "loaded"
  /\ UNCHANGED <<prog, graphVars, delayVars, buildVars, built, queryVars>>

NextBuild == ReadNode \/ EndNodes \/ ReadEdge \/ EndEdges

SpecBuild == InitBuild /\ [][NextBuild]_vars


----------------------------------------------------------------------------
(* Inputs of the path computations (Spec): the trees that are the          *)
(* subsequences of one document.  Nodes A, B, C, D at 0 m, 100 m, 200 m    *)
(* and 100 m of the meridian, the node element of D present or not; the    *)
(* roads A-B, B-C, C-D, D-A, a one-way chord A->C declared 250 m long, a   *)
(* one-way road C->A declared 0 m long and a one-way loop at B.            *)

Elem(s, t, f, l, r, o) ==
  [source |-> s, target |-> t, finite |-> f, length |-> l, name |-> r, oneway |-> o]

DocNodes == << [id |-> 1, lat |-> 0], [id |-> 2, lat |-> 10],
               [id |-> 3, lat |-> 20], [id |-> 4, lat |-> 10] >>
DocEdges == << Elem(1, 2, FALSE, 0, "Jong-ro", ""),
               Elem(2, 3, FALSE, 0, "", "no"),
               Elem(3, 4, TRUE, 100, "", ""),
               Elem(4, 1, TRUE, 100, "", ""),
               Elem(1, 3, TRUE, 250, "", "TRUE"),
               Elem(3, 1, TRUE, 0, "", "Yes"),
               Elem(2, 2, FALSE, 0, "", "1") >>

RECURSIVE Pick(_, _, _)
\* the subsequence of seq at the positions of keep, from position k on
Pick(seq, keep, k) ==
  IF k > Len(seq) THEN <<>>
  ELSE (IF k \in keep THEN <<seq[k]>> ELSE <<>>) \o Pick(seq, keep, k + 1)

QueryTrees ==
  {[nodes |-> Pick(DocNodes, ns, 1), edges |-> Pick(DocEdges, es, 1)] :
     ns \in {{1, 2, 3}, {1, 2, 3, 4}}, es \in SUBSET (1 .. Len(DocEdges))}

\* identifiers a user of project1.cpp types: the four names and "Z"
QueryIds == 1 .. 5
\* latitudes a user of smart_mobility_shortest_path.cpp types
QueryLats == {0, 1, 10, 13, 20}
\* the signal delays a user registers
DelayPairs == {<<1, 2>>, <<2, 3>>, <<1, 3>>}
DelayNodes == {2}
Delays == {5, 10}

Init ==
  /\ prog \in {1, 2}
  /\ \E tree \in QueryTrees :
       LET g == loadGraphML(prog, tree)
       IN  /\ nodes = g.nodes
           /\ adj = g.adj
           /\ edgeInfoMap = g.edgeInfoMap
  /\ trafficDelay = Empty /\ trafficLightDelay = Empty
  /\ pc = "input"
  /\ nEdges = 0 /\ lastElem = NoElem
  /\ built = Empty
  /\ Idle

Snapshot == [nodes |-> nodes, adj |-> adj, edgeInfoMap |-> edgeInfoMap,
             trafficDelay |-> trafficDelay, trafficLightDelay |-> trafficLightDelay]

\* main of project1.cpp: trafficDelay[from][to] = delay
ReadDelay1 ==
  /\ pc = "input" /\ prog = 1
  /\ Cardinality(DOMAIN trafficDelay) < MaxDelays
  /\ \E ft \in DelayPairs, d \in Delays : trafficDelay' = Put(trafficDelay, ft, d)
  /\ UNCHANGED <<prog, graphVars, trafficLightDelay, pc, buildVars, built, queryVars>>

\* main of smart_mobility_shortest_path.cpp: trafficLightDelay[node] = delay
ReadDelay2 ==
  /\ pc = "input" /\ prog = 2
  /\ Cardinality(DOMAIN trafficLightDelay) < MaxDelays
  /\ \E n \in DelayNodes, d \in Delays : trafficLightDelay' = Put(trafficLightDelay, n, d)
  /\ UNCHANGED <<prog, graphVars, trafficDelay, pc, buildVars, built, queryVars>>

\* the delays are read; the path computations begin
EndInput ==
  /\ pc = "input"
  /\ pc' = "idle"
  /\ built' = Snapshot
  /\ UNCHANGED <<prog, graphVars, delayVars, buildVars, queryVars>>

----------------------------------------------------------------------------
(* findNode and pathLength *)

\* the identifiers findNode(lat, 0.0) can return: the nearest node when it
\* is within 20 m, else "".  d < minD keeps the first nearest node of the
\* unordered_map's iteration, which can be any of the nearest ones.
findNode(lat) ==
  LET D(n)    == haversine(lat, nodes[n].lat)
      nearest == {n \in DOMAIN nodes : \A m \in DOMAIN nodes : D(n) <= D(m)}
  IN  IF nearest = {} THEN {NoId}
      ELSE {IF D(n) <= 20 THEN n ELSE NoId : n \in nearest}

NoInfo == [length |-> 0, roadName |-> ""]

RECURSIVE pathLength(_, _)
\* the sum of edgeInfoMap[p[i-1]][p[i]].length over the steps of p
pathLength(m, p) ==
  IF Len(p) < 2 THEN 0
  ELSE Get(Get(m, p[1], Empty), p[2], NoInfo).length + pathLength(m, Tail(p))

RECURSIVE pathLengthMap(_, _)
\* edgeInfoMap after pathLength(p): operator[] inserts what it does not find
pathLengthMap(m, p) ==
  IF Len(p) < 2 THEN m
  ELSE LET inner == Touch(Get(m, p[1], Empty), p[2], NoInfo)
       IN  pathLengthMap(Put(m, p[1], inner), Tail(p))

\* main: the length printed for a result, -1 for an empty one
Printed(m, p) == IF p = <<>> THEN -1 ELSE pathLength(m, p)

----------------------------------------------------------------------------
(* dijkstra *)

\* the cost dijkstra adds to cd for the edge u -> v of length w
RelaxCost(p, u, v, w) ==
  IF p = 1 THEN 10 * w + 139 * Get(trafficDelay, <<u, v>>, 0)
  ELSE w

\* priority_queue with greater<>: the least pair (distance, identifier)
Top(q) ==
  CHOOSE x \in q : \A y \in q : x[1] < y[1] \/ (x[1] = y[1] /\ x[2] <= y[2])

\* if (dist[v] > cost) { dist[v] = cost; prev[v] = u; pq.push({dist[v], v}); }
Relax(s, cd, u, v, w) ==
  LET cost == cd + RelaxCost(prog, u, v, w)
      d    == Touch(s.dist, v, 0)
  IN  IF d[v] > cost
      THEN [dist |-> Put(d, v, cost), prev |-> Put(s.prev, v, u),
            pq |-> s.pq \cup {<<cost, v>>}]
      ELSE [s EXCEPT !.dist = d]

RECURSIVE RelaxAll(_, _, _, _)
\* for (auto& pr : adj[u]) ...
RelaxAll(s, cd, u, nb) ==
  IF nb = <<>> THEN s
  ELSE RelaxAll(Relax(s, cd, u, nb[1][1], nb[1][2]), cd, u, Tail(nb))

\* the call: dist is 1e18 for every node and 0 for start, the frontier holds start
CallDijkstra ==
  /\ pc = "ready"
  /\ dist' = Put([n \in DOMAIN nodes |-> INF], start, 0)
  /\ prev' = Empty
  /\ pq' = {<<0, start>>}
  /\ pops' = 0
  /\ pc' = "dj_loop"
  /\ UNCHANGED <<prog, graphVars, delayVars, buildVars, built, start, goal,
                 path, route, total, mcVars>>

\* one iteration of while (!pq.empty())
DjIterate ==
  /\ pc = "dj_loop" /\ pq # {}
  /\ LET top == Top(pq)
         cd  == top[1]
         u   == top[2]
     IN  /\ pops' = pops + 1
         /\ IF u = goal
            THEN /\ pq' = pq \ {top}
                 /\ pc' = "dj_check"
                 /\ UNCHANGED <<dist, prev, adj>>
            ELSE LET s == RelaxAll([dist |-> dist, prev |-> prev, pq |-> pq \ {top}],
                                   cd, u, Get(adj, u, <<>>))
                 IN  /\ dist' = s.dist
                     /\ prev' = s.prev
                     /\ pq' = s.pq
                     /\ adj' = Touch(adj, u, <<>>)
                     /\ pc' = pc
  /\ UNCHANGED <<prog, nodes, edgeInfoMap, delayVars, buildVars, built, start, goal,
                 path, route, total, mcVars>>

\* the frontier is empty
DjExhausted ==
  /\ pc = "dj_loop" /\ pq = {}
  /\ pc' = "dj_check"
  /\ UNCHANGED <<prog, graphVars, delayVars, buildVars, built, start, goal,
                 djVars, path, route, total, mcVars>>

\* a slip in the test of the goal's distance: > for >=
UnreachedStrict(d) == d > INF

\* dist[goal] >= 1e18
Unreached(d) == d >= INF

\* if (dist[goal] >= 1e18) return {}; else the reconstruction begins at goal
DjCheck ==
  /\ pc = "dj_check"
  /\ dist' = Touch(dist, goal, 0)
  /\ IF Unreached(dist'[goal])
     THEN /\ route' = <<>>
          /\ total' = -1
          /\ pc' = "dj_done"
          /\ UNCHANGED cur
     ELSE /\ cur' = goal
          /\ pc' = "dj_rebuild"
          /\ UNCHANGED <<route, total>>
  /\ path' = <<>>
  /\ UNCHANGED <<prog, graphVars, delayVars, buildVars, built, start, goal,
                 prev, pq, pops, M, N, i, st, best, bestStep, bestLen>>

RECURSIVE Reverse(_)
Reverse(p) == IF p = <<>> THEN <<>> ELSE Append(Reverse(Tail(p)), Head(p))

\* one iteration of for (string cur = goal; ; cur = prev[cur]); at start the
\* path is reversed and returned (main of smart_mobility_shortest_path.cpp
\* prints pathLength of it, project1.cpp returns dist[goal] with it)
DjRebuild ==
  /\ pc = "dj_rebuild"
  /\ Len(path) < MaxPath
  /\ path' = Append(path, cur)
  /\ IF cur = start
     THEN /\ route' = Reverse(path')
          /\ total' = IF prog = 1 THEN dist[goal] ELSE Printed(edgeInfoMap, route')
          /\ edgeInfoMap' = IF prog = 1 THEN edgeInfoMap
                            ELSE pathLengthMap(edgeInfoMap, route')
          /\ pc' = "dj_done"
          /\ UNCHANGED <<cur, prev>>
     ELSE /\ prev' = Touch(prev, cur, NoId)
          /\ cur' = prev'[cur]
          /\ UNCHANGED <<route, total, edgeInfoMap, pc>>
  /\ UNCHANGED <<prog, nodes, adj, delayVars, buildVars, built, start, goal,
                 dist, pq, pops, M, N, i, st, best, bestStep, bestLen>>

----------------------------------------------------------------------------
(* monteCarlo *)

\* the call with trial count m and step count n
CallMonteCarlo ==
  /\ pc = "ready" /\ prog = 2
  /\ \E m \in 0 .. MaxM, n \in 0 .. MaxN : M' = m /\ N' = n
  /\ best' = <<>> /\ bestStep' = INF /\ bestLen' = INF
  /\ i' = 0
  /\ pc' = "mc_for"
  /\ UNCHANGED <<prog, graphVars, delayVars, buildVars, built, start, goal,
                 djVars, path, route, total, st, cur>>

\* for (int i = 0; i < M; i++): the next trial begins, or best is returned
McTrial ==
  /\ pc = "mc_for"
  /\ IF i < M
     THEN /\ path' = <<start>>
          /\ cur' = start
          /\ st' = 0
          /\ pc' = "mc_walk"
          /\ UNCHANGED <<route, total, edgeInfoMap>>
     ELSE /\ route' = best
          /\ total' = Printed(edgeInfoMap, best)
          /\ edgeInfoMap' = pathLengthMap(edgeInfoMap, best)
          /\ pc' = "mc_done"
          /\ UNCHANGED <<path, cur, st>>
  /\ UNCHANGED <<prog, nodes, adj, delayVars, buildVars, built, start, goal,
                 djVars, M, N, i, best, bestStep, bestLen>>

\* the walk without its break at the goal
AtGoalNever(c, g) == FALSE

\* if (cur == goal) break;  inside the walk
AtGoal(c, g) == c = g

\* the walk goes on: st < N, cur is not the goal; adj[cur] is looked up
Walking == st < N /\ ~AtGoal(cur, goal)

\* one step of the walk to a neighbour drawn uniformly
McStep ==
  /\ pc = "mc_walk"
  /\ Walking
  /\ Get(adj, cur, <<>>) # <<>>
  /\ \E k \in 1 .. Len(adj[cur]) :
       LET nxt == adj[cur][k][1]
       IN  /\ path' = Append(path, nxt)
           /\ cur' = nxt
  /\ st' = st + 1
  /\ UNCHANGED <<prog, graphVars, delayVars, pc, buildVars, built, start, goal,
                 djVars, route, total, M, N, i, best, bestStep, bestLen>>

\* every trial counted as a hit
HitAlways(c, g) == TRUE

\* if (cur == goal)  after the walk: the trial is a hit
Hit(c, g) == c = g

\* the walk ends (step budget, goal, or no neighbour) and the trial is scored
McEndTrial ==
  /\ pc = "mc_walk"
  /\ ~Walking \/ Get(adj, cur, <<>>) = <<>>
  /\ adj' = IF Walking THEN Touch(adj, cur, <<>>) ELSE adj
  /\ LET len == pathLength(edgeInfoMap, path)
     IN  /\ edgeInfoMap' = IF Hit(cur, goal) THEN pathLengthMap(edgeInfoMap, path)
                           ELSE edgeInfoMap
         /\ IF /\ Hit(cur, goal)
               /\ \/ Len(path) < bestStep
                  \/ (Len(path) = bestStep /\ len < bestLen)
            THEN /\ bestStep' = Len(path)
                 /\ bestLen' = len
                 /\ best' = path
            ELSE UNCHANGED <<best, bestStep, bestLen>>
  /\ i' = i + 1
  /\ pc' = "mc_for"
  /\ UNCHANGED <<prog, nodes, delayVars, buildVars, built, start, goal,
                 djVars, path, route, total, M, N, st, cur>>

----------------------------------------------------------------------------
(* The queries *)

\* main of project1.cpp: cin >> s; cin >> d;  no check against the graph
ReadQuery1 ==
  /\ pc = "idle" /\ prog = 1
  /\ \E s \in QueryIds, d \in QueryIds : start' = s /\ goal' = d
  /\ pc' = "ready"
  /\ UNCHANGED <<prog, graphVars, delayVars, buildVars, built, djVars, path,
                 route, total, mcVars>>

\* main of smart_mobility_shortest_path.cpp: s = findNode(..), d = findNode(..);
\* "Node not found" when either is empty
ReadQuery2 ==
  /\ pc = "idle" /\ prog = 2
  /\ \E slat \in QueryLats, dlat \in QueryLats :
       \E s \in findNode(slat), d \in findNode(dlat) :
          /\ start' = s
          /\ goal' = d
          /\ pc' = IF s = NoId \/ d = NoId THEN "not_found" ELSE "ready"
  /\ UNCHANGED <<prog, graphVars, delayVars, buildVars, built, djVars, path,
                 route, total, mcVars>>

\* the result is consumed; the locals of the call are gone
Return ==
  /\ pc \in {"dj_done", "mc_done", "not_found"}
  /\ pc' = "idle"
  /\ start' = NoId /\ goal' = NoId
  /\ dist' = Empty /\ prev' = Empty /\ pq' = {} /\ pops' = 0
  /\ path' = <<>> /\ route' = <<>> /\ total' = 0
  /\ M' = 0 /\ N' = 0 /\ i' = 0 /\ st' = 0 /\ cur' = NoId
  /\ best' = <<>> /\ bestStep' = INF /\ bestLen' = INF
  /\ UNCHANGED <<prog, graphVars, delayVars, buildVars, built>>

Next ==
  \/ ReadDelay1 \/ ReadDelay2 \/ EndInput
  \/ ReadQuery1 \/ ReadQuery2
  \/ CallDijkstra \/ DjIterate \/ DjExhausted \/ DjCheck \/ DjRebuild
  \/ CallMonteCarlo \/ McTrial \/ McStep \/ McEndTrial
  \/ Return

Spec == Init /\ [][Next]_vars

----------------------------------------------------------------------------
(* What the properties speak of *)

\* the neighbours listed for u and the directed edges of an adjacency map
Succ(a, u) == {Get(a, u, <<>>)[k][1] : k \in 1 .. Len(Get(a, u, <<>>))}
EdgesOf(a) ==
  UNION {{<<u, a[u][k][1], a[u][k][2]>> : k \in 1 .. Len(a[u])} : u \in DOMAIN a}
InfoLengths(m) == UNION {{m[u][v].length : v \in DOMAIN m[u]} : u \in DOMAIN m}
TotalAdj(a) == Cardinality(UNION {{<<u, k>> : k \in 1 .. Len(a[u])} : u \in DOMAIN a})

RECURSIVE ReachSet(_, _)
\* the identifiers reachable from those of S along directed edges
ReachSet(a, S) ==
  LET T == S \cup UNION {Succ(a, u) : u \in S}
  IN  IF T = S THEN S ELSE ReachSet(a, T)
Reach(s, g) == g \in ReachSet(adj, {s})

Least(S) == CHOOSE x \in S : \A y \in S : x <= y

RECURSIVE BellmanFord(_, _, _)
\* n rounds of relaxing every edge, from the distances D
BellmanFord(D, E, n) ==
  IF n = 0 THEN D
  ELSE BellmanFord(
         [v \in DOMAIN D |->
            Least({D[v]} \cup {D[e[1]] + RelaxCost(prog, e[1], e[2], e[3]) :
                                 e \in {x \in E : x[2] = v /\ D[x[1]] < INF}})],
         E, n - 1)

\* the least summed edge cost over the directed paths from s to g
MinCost(s, g) ==
  LET V == ReachSet(adj, {s})
      E == {e \in EdgesOf(adj) : e[1] \in V}
  IN  BellmanFord([v \in V |-> IF v = s THEN 0 ELSE INF], E, Cardinality(V))[g]

NoRepeat(p) == \A a, b \in 1 .. Len(p) : p[a] = p[b] => a = b
FollowsEdges(p) == \A k \in 1 .. Len(p) - 1 : p[k + 1] \in Succ(adj, p[k])
IsRoute(p) == p # <<>> /\ p[1] = start /\ p[Len(p)] = goal /\ FollowsEdges(p)

DjStates == {"dj_loop", "dj_check", "dj_rebuild", "dj_done"}
McStates == {"mc_for", "mc_walk", "mc_done"}

\* every identifier of the adjacency map has a node
EndpointsHaveNodes ==
  \A u \in DOMAIN adj : u \in DOMAIN nodes /\ Succ(adj, u) \subseteq DOMAIN nodes

\* the graph of the 4-node cycle A-B-C-D-A, each edge 100 m
CycleTree == [nodes |-> DocNodes, edges |-> Pick(DocEdges, 1 .. 4, 1)]
CycleGraph == built # Empty /\ built.adj = loadGraphML(prog, CycleTree).adj
\* a 10 second delay registered at node B
DelayAtB ==
  IF prog = 1
  THEN DOMAIN trafficDelay \in {{<<1, 2>>}, {<<2, 3>>}}
       /\ \A ft \in DOMAIN trafficDelay : trafficDelay[ft] = 10
  ELSE DOMAIN trafficLightDelay = {2} /\ trafficLightDelay[2] = 10

----------------------------------------------------------------------------
(* Properties *)

\* C1: with non-negative edge costs and goal reachable from start, both
\* nodes of the graph, dijkstra returns a route from start to goal along
\* directed adjacency edges, and the goal's tentative distance is the least
\* summed edge cost over all directed paths from start to goal.
C1_DijkstraShortest ==
  (/\ pc = "dj_done"
   /\ start \in DOMAIN nodes /\ goal \in DOMAIN nodes
   /\ \A e \in EdgesOf(adj) : RelaxCost(prog, e[1], e[2], e[3]) >= 0
   /\ Reach(start, goal))
  => /\ IsRoute(route)
     /\ dist[goal] = MinCost(start, goal)

\* C1 on the graphs in which every edge endpoint has a node
DijkstraShortestWithNodes ==
  EndpointsHaveNodes => C1_DijkstraShortest

\* C2: on the 4-node cycle with a 10 second delay registered at B, the
\* route returned for start A and goal C is A-D-C, the registered delay
\* being part of the cost of an edge.
C2_DelayChangesRoute ==
  (pc = "dj_done" /\ CycleGraph /\ DelayAtB /\ start = 1 /\ goal = 3)
  => route = <<1, 4, 3>>

\* C2 for project1.cpp alone
DelayChangesRoute1 == prog = 1 => C2_DelayChangesRoute

\* C3: for start and goal nodes of the graph with no directed path from
\* start to goal, dijkstra ends, within 1 + (number of adjacency entries)
\* iterations of its loop, without entering the path reconstruction, and
\* returns the empty route (total -1).
C3_NoPath ==
  (/\ pc \in DjStates
   /\ start \in DOMAIN nodes /\ goal \in DOMAIN nodes
   /\ ~Reach(start, goal))
  => /\ pc # "dj_rebuild"
     /\ pops <= 1 + TotalAdj(adj)
     /\ Get(dist, goal, INF) >= INF
     /\ pc = "dj_done" => (route = <<>> /\ total = -1)

\* C3's case: a search that went over several nodes and reported no path
C3_Witness ==
  /\ pc = "dj_done" /\ pops > 2
  /\ start \in DOMAIN nodes /\ goal \in DOMAIN nodes
  /\ ~Reach(start, goal)
  /\ route = <<>> /\ total = -1

\* C4: a query whose start or goal is not a node ends and yields no route:
\* the computation returns the empty route, and its path reconstruction
\* never pushes an identifier twice (which it does only when it never ends).
C4_UnresolvedQuery ==
  (/\ pc \in DjStates \cup McStates
   /\ (start \notin DOMAIN nodes \/ goal \notin DOMAIN nodes))
  => /\ pc \in {"dj_done", "mc_done"} => route = <<>>
     /\ pc = "dj_rebuild" => NoRepeat(path)

\* C5: an edge element whose oneway is "true", "yes" or "1" in any case adds
\* one directed edge source -> target and no reverse edge; every other edge
\* element adds source -> target and target -> source with the same length
\* and road name, in the adjacency list and the metadata map.
NewEntries(u) ==
  SubSeq(Get(adj', u, <<>>), Len(Get(adj, u, <<>>)) + 1, Len(Get(adj', u, <<>>)))
InfoOf(m, u, v) == Get(Get(m, u, Empty), v, [length |-> -1, roadName |-> "?"])
EdgeAddedAsClaimed ==
  LET e == lastElem'
      s == e.source
      t == e.target
      L == InfoOf(edgeInfoMap', s, t).length
  IN  /\ \A u \in DOMAIN adj' : u \notin {s, t} => NewEntries(u) = <<>>
      /\ t \in DOMAIN Get(edgeInfoMap', s, Empty)
      /\ IF ToLower(e.oneway) \in {"true", "yes", "1"}
         THEN /\ NewEntries(s) = << <<t, L>> >>
              /\ s # t => NewEntries(t) = <<>>
              /\ s # t => Get(edgeInfoMap', t, Empty) = Get(edgeInfoMap, t, Empty)
         ELSE /\ IF s = t THEN NewEntries(s) = << <<s, L>>, <<s, L>> >>
                 ELSE NewEntries(s) = << <<t, L>> >> /\ NewEntries(t) = << <<s, L>> >>
              /\ InfoOf(edgeInfoMap', t, s) = InfoOf(edgeInfoMap', s, t)
C5_OnewayEdges == [][nEdges' = nEdges + 1 => EdgeAddedAsClaimed]_vars

\* C5 for smart_mobility_shortest_path.cpp alone
OnewayEdges2 == [][(prog = 2 /\ nEdges' = nEdges + 1) => EdgeAddedAsClaimed]_vars

\* C6 as stated: monteCarlo with M = 0 or N = 0 returns the empty path,
\* also when start = goal.
C6_Original ==
  (pc = "mc_done" /\ (M = 0 \/ N = 0)) => route = <<>>

\* C6 as amended: monteCarlo returns the empty path when M = 0, and when
\* N = 0 and start differs from goal; with N = 0, M >= 1 and start = goal it
\* returns the one-node path of start.
C6_NoHit ==
  pc = "mc_done" =>
    /\ (M = 0 \/ (N = 0 /\ start # goal)) => route = <<>>
    /\ (M > 0 /\ N = 0 /\ start = goal) => route = <<start>>

\* C6's case: a trial ran with no step to take, away from the goal
C6_Witness ==
  pc = "mc_done" /\ M > 0 /\ N = 0 /\ start # goal /\ route = <<>>

\* C7: after the build every identifier that is a key of the adjacency map
\* or a neighbour in an adjacency list has an entry in the node table.
C7_EndpointsHaveNodes == pc = "loaded" => EndpointsHaveNodes

\* C8: after the build every stored edge length, in the adjacency list and
\* in the metadata map, is non-negative (and a number: lengths that are not
\* finite are replaced before they are stored).
C8_LengthsNonNegative ==
  pc = "loaded" =>
    /\ \A e \in EdgesOf(adj) : e[3] >= 0
    /\ \A l \in InfoLengths(edgeInfoMap) : l >= 0

\* C9 as stated: every non-empty path monteCarlo returns starts at start,
\* ends at goal and holds no identifier twice.
C9_Original ==
  (pc = "mc_done" /\ route # <<>>) =>
    route[1] = start /\ route[Len(route)] = goal /\ NoRepeat(route)

\* C9 as amended: every non-empty path monteCarlo returns starts at start,
\* ends at goal, follows a directed adjacency edge at every step, holds at
\* most N + 1 nodes and holds the goal once, as its last node; other nodes
\* may repeat.
GoalOnlyLast(p) == \A k \in 1 .. Len(p) - 1 : p[k] # goal
C9_ArrivalWalk ==
  /\ (pc \in McStates /\ best # <<>>) =>
       IsRoute(best) /\ Len(best) <= N + 1 /\ GoalOnlyLast(best)
  /\ pc = "mc_done" => route = best

\* C9's case: a returned walk that visits a node twice
C9_Witness == pc = "mc_done" /\ route # <<>> /\ ~NoRepeat(route)

\* C10: no path computation changes the node table, the adjacency map, the
\* metadata map or the signal-delay tables.
C10_GraphReadOnly == pc # "input" => Snapshot = built

=============================================================================
